---- MODULE Spec2Model ----
(***************************************************************************)
(* Retrieval, context packing and safety classification of Angel Cloud     *)
(* (src/utils/weaviate.js).  Every exported function is an async function  *)
(* on a single-threaded event loop: a call runs to its next await, and the *)
(* storage engine answers each outstanding request in any order.           *)
(***************************************************************************)
EXTENDS Integers, Sequences, FiniteSets, TLC

VARIABLES
  db,               \* the store: class name -> records, in the engine's order
  op,               \* the exported function executing ("none" before the call)
  pc,               \* where the call is suspended
  opts,             \* brainSearch: includeLegacy/includeMemory/includeConversation/limit
  maxTokens,        \* getContextForPrompt: the budget
  results,          \* brainSearch: the results object
  outcome,          \* per source: how its storage call ended
  sent,             \* the requests issued to the storage engine, in order
  contextParts,     \* getContextForPrompt: chunks packed so far
  estimatedTokens,  \* getContextForPrompt: running size estimate
  idx,              \* getContextForPrompt: position of the for-of loop
  text,             \* analyzeWithContext: the input
  mode,             \* analyzeWithContext: the chat mode
  hasCrisisIndicators, \* analyzeWithContext: the local of that name
  insertOutcome,    \* how the createObject call of logCrisis ended
  prev,             \* what the previous call on the same input reported
  ncalls,           \* calls made so far
  now,              \* the clock reading (Date.now())
  role,             \* logConversation: who wrote the message
  sessionId,        \* logConversation / chat: the session the caller named
  includeContext,   \* chat: the include_context flag of the request
  logOutcome,       \* how the createObject call of logConversation ended
  route,            \* the request handler running ("none" for a direct call)
  givenSeverity,    \* logCrisis: the severity the caller supplied
  calls,            \* concurrent brainSearch calls: call -> its locals
  writer,           \* a caller adding a record: its position, request and return
  ret               \* the promise the call returned

searchVars == <<opts, results, outcome>>
packVars == <<maxTokens, contextParts, estimatedTokens, idx>>
classifyVars == <<text, mode, hasCrisisIndicators, insertOutcome, prev>>
handlerVars == <<route, givenSeverity, calls, writer>>
routeVars == <<role, sessionId, includeContext, logOutcome, handlerVars>>

vars == <<db, op, pc, sent, ret, ncalls, now, searchVars, packVars, classifyVars,
          routeVars>>

----------------------------------------------------------------------------
(* Bounds of the model. *)

\* longest LegacyKnowledge / SessionMemory collection
MaxStored == 3
\* largest budget handed to getContextForPrompt
MaxBudget == 28
\* largest per-source limit handed to brainSearch
MaxLimit == 2
\* most Conversation records in the store
MaxTurns == 1
\* longest collection of the stores that are searched twice or chatted against
MaxKept == 1
\* calls of logConversation in a run
MaxLogCalls == 2
\* last reading of the millisecond clock
MaxClock == 2

----------------------------------------------------------------------------
(* Values. *)

Sources == {"legacy", "memory", "conversation"}

\* the collection each source of brainSearch reads
ClassOf(s) ==
  CASE s = "legacy" -> "LegacyKnowledge"
    [] s = "memory" -> "SessionMemory"
    [] s = "conversation" -> "Conversation"

\* an absent (undefined) field of a record is the empty string: both are falsy
KnowledgeItems ==
  { [content |-> "Pray", category |-> "", source |-> "manual"],
    [content |-> "Family first", category |-> "faith", source |-> "manual"] }

MemoryItems ==
  { [content |-> "ok", section |-> "", session_file |-> "s1.md",
     session_date |-> "2026-02-05"],
    [content |-> "Ship the sync", section |-> "decisions",
     session_file |-> "s2.md", session_date |-> "2026-02-06"] }

Turns ==
  { [message |-> "hello", role |-> "user", mode |-> "logibot",
     timestamp |-> "t0"] }

SeqUpTo(S, n) == UNION { [1..k -> S] : k \in 0..n }

Take(seq, n) == SubSeq(seq, 1, IF n < Len(seq) THEN n ELSE Len(seq))

Budgets == (0 - 1)..MaxBudget

\* how a storage call can end: a response with data, a response whose body
\* carries no data (GraphQL errors under HTTP 200), a response that carries
\* more records than the query's limit, or a failure
FailureKinds == {"unavailable", "query_error"}

Answers == {"ok", "no_data", "over_limit"}

----------------------------------------------------------------------------
(* Storage adapter. *)

\* variant: the query carries no `limit`, the engine answers every record
EngineGetNoLimit(class, limit) == db[class]

\* what the engine answers to a Get with `limit` on a collection
EngineGet(class, limit) == Take(db[class], limit)

\* an answer over the limit needs a collection longer than the limit
CanAnswer(class, limit, how) ==
  how = "over_limit" => Len(db[class]) > limit

\* weaviateQuery: the response body of a successful call, or a throw
\* (fetch failed: "unavailable"; response not ok: "query_error")
WeaviateQuery(class, limit, how) ==
  IF how = "ok"
  THEN [threw |-> FALSE, hasData |-> TRUE, data |-> EngineGet(class, limit)]
  ELSE IF how = "over_limit"
  THEN [threw |-> FALSE, hasData |-> TRUE, data |-> db[class]]
  ELSE IF how = "no_data"
  THEN [threw |-> FALSE, hasData |-> FALSE]
  ELSE [threw |-> TRUE, error |-> how]

\* variant: `limit` bounds the records of all sources together, so a source
\* gets what the sources answered before it have left
SearchSourceSharedLimit(s, limit, how) ==
  LET r == WeaviateQuery(ClassOf(s), limit, how)
      used == Len(results.legacy) + Len(results.memory)
                + Len(results.conversation)
  IN  IF r.threw THEN r
      ELSE [threw |-> FALSE,
            data |-> IF r.hasData
                     THEN Take(r.data, IF used < limit THEN limit - used ELSE 0)
                     ELSE <<>>]

\* searchLegacy / searchMemory / the inline conversation query:
\* `result.data?.Get?.<Class> || []` of the response; a throw passes through
SearchSource(s, limit, how) ==
  LET r == WeaviateQuery(ClassOf(s), limit, how) IN
  IF r.threw THEN r
  ELSE [threw |-> FALSE, data |-> IF r.hasData THEN r.data ELSE <<>>]

QueryRequest(s, limit) == [kind |-> "query", class |-> ClassOf(s), limit |-> limit]

----------------------------------------------------------------------------
(* brainSearch. *)

EmptyResults == [legacy |-> <<>>, memory |-> <<>>, conversation |-> <<>>]

Enabled(o, s) ==
  CASE s = "legacy" -> o.includeLegacy
    [] s = "memory" -> o.includeMemory
    [] s = "conversation" -> o.includeConversation

\* variant: the search first stores the query text as a conversation turn
SearchRequestsLogged(o) ==
  <<[kind |-> "insert", class |-> "Conversation",
     properties |-> [message |-> "query", role |-> "user"]]>>
  \o (IF o.includeLegacy THEN <<QueryRequest("legacy", o.limit)>> ELSE <<>>)
  \o (IF o.includeMemory THEN <<QueryRequest("memory", o.limit)>> ELSE <<>>)
  \o (IF o.includeConversation THEN <<QueryRequest("conversation", o.limit)>> ELSE <<>>)

\* the requests brainSearch issues before its first await, in program order
SearchRequests(o) ==
  (IF o.includeLegacy THEN <<QueryRequest("legacy", o.limit)>> ELSE <<>>)
  \o (IF o.includeMemory THEN <<QueryRequest("memory", o.limit)>> ELSE <<>>)
  \o (IF o.includeConversation THEN <<QueryRequest("conversation", o.limit)>> ELSE <<>>)

\* variant: the `.catch` handler is missing, a rejection stays a rejection
CatchIgnoreMissing(p) == p

\* `.catch(() => {})`: a rejected promise becomes a fulfilled one
CatchIgnore(p) == IF p = "rejected" THEN "fulfilled" ELSE p

\* the promise pushed on `searches` for source s
SearchPromise(s) ==
  CASE outcome[s] \in {"pending", "hung"} -> "pending"
    [] outcome[s] \in Answers -> "fulfilled"
    [] OTHER -> CatchIgnore("rejected")

Pushed == { s \in Sources : outcome[s] # "unsent" }

\* variant: Promise.race(searches), settled by the first search that settles
PromiseRace ==
  IF \E s \in Pushed : SearchPromise(s) = "fulfilled" THEN "fulfilled"
  ELSE IF \E s \in Pushed : SearchPromise(s) = "rejected" THEN "rejected"
  ELSE "pending"

\* Promise.all(searches)
PromiseAll ==
  IF \E s \in Pushed : SearchPromise(s) = "rejected" THEN "rejected"
  ELSE IF \A s \in Pushed : SearchPromise(s) = "fulfilled" THEN "fulfilled"
  ELSE "pending"

\* the synchronous part of brainSearch: up to `await Promise.all(searches)`
StartSearch(o) ==
  /\ opts' = o
  /\ results' = EmptyResults
  /\ outcome' = [s \in Sources |-> IF Enabled(o, s) THEN "pending" ELSE "unsent"]
  /\ sent' = sent \o SearchRequests(o)
  /\ pc' = "search"

\* the storage call of one source settles; its .then/.catch handlers run
BS_Complete ==
  /\ op \in {"brainSearch", "getContextForPrompt", "chat"}
  /\ \E s \in Sources, how \in Answers \cup FailureKinds :
       /\ outcome[s] = "pending"
       /\ CanAnswer(ClassOf(s), opts.limit, how)
       /\ LET r == SearchSource(s, opts.limit, how) IN
            /\ outcome' = [outcome EXCEPT ![s] = how]
            /\ results' = IF r.threw THEN results
                          ELSE [results EXCEPT ![s] = r.data]
  /\ UNCHANGED <<db, op, pc, sent, ret, ncalls, now, routeVars, opts, packVars, classifyVars>>

\* the engine takes the request of one source and never answers it; fetch is
\* called without a timeout or an abort signal, so the call stays pending
BS_Hang ==
  /\ op \in {"brainSearch", "getContextForPrompt"}
  /\ \E s \in Sources :
       /\ outcome[s] = "pending"
       /\ outcome' = [outcome EXCEPT ![s] = "hung"]
  /\ UNCHANGED <<db, op, pc, sent, ret, ncalls, now, routeVars, opts, results,
                 packVars, classifyVars>>

\* Promise.all settles and brainSearch resumes: it returns `results`, and
\* getContextForPrompt goes on to pack them
BS_Join ==
  /\ pc = "search"
  /\ PromiseAll # "pending"
  /\ IF PromiseAll = "rejected"
     THEN /\ pc' = IF op = "chat" THEN "chatScreen" ELSE "done"
          /\ ret' = [status |-> "rejected", error |-> "storage"]
          /\ UNCHANGED <<contextParts, estimatedTokens, idx>>
     ELSE IF op = "brainSearch"
     THEN /\ pc' = "done"
          /\ ret' = [status |-> "resolved", value |-> results]
          /\ UNCHANGED <<contextParts, estimatedTokens, idx>>
     ELSE /\ pc' = "packLegacy"
          /\ contextParts' = <<>>
          /\ estimatedTokens' = 0
          /\ idx' = 1
          /\ UNCHANGED ret
  /\ UNCHANGED <<db, op, sent, ncalls, now, routeVars, maxTokens, searchVars, classifyVars>>

OptionKeys == {"includeLegacy", "includeMemory", "includeConversation", "limit"}

\* variant: conversation turns are searched unless the caller says otherwise
WithDefaultsConversationOn(given, o) ==
  [includeLegacy |-> IF "includeLegacy" \in given THEN o.includeLegacy ELSE TRUE,
   includeMemory |-> IF "includeMemory" \in given THEN o.includeMemory ELSE TRUE,
   includeConversation |->
     IF "includeConversation" \in given THEN o.includeConversation ELSE TRUE,
   limit |-> IF "limit" \in given THEN o.limit ELSE 3]

\* the destructuring of `options`: a key the caller left out takes its default
WithDefaults(given, o) ==
  [includeLegacy |-> IF "includeLegacy" \in given THEN o.includeLegacy ELSE TRUE,
   includeMemory |-> IF "includeMemory" \in given THEN o.includeMemory ELSE TRUE,
   includeConversation |->
     IF "includeConversation" \in given THEN o.includeConversation ELSE FALSE,
   limit |-> IF "limit" \in given THEN o.limit ELSE 3]

\* the caller gives any of the options, or none
CallBrainSearch ==
  /\ pc = "idle"
  /\ op' = "brainSearch"
  /\ ncalls' = ncalls + 1
  /\ \E given \in SUBSET OptionKeys,
        il \in BOOLEAN, im \in BOOLEAN, ic \in BOOLEAN, l \in 1..MaxLimit :
       StartSearch(WithDefaults(given,
                     [includeLegacy |-> il, includeMemory |-> im,
                      includeConversation |-> ic, limit |-> l]))
  /\ UNCHANGED <<db, ret, now, routeVars, packVars, classifyVars>>

\* the caller repeats brainSearch with the same query and options; nothing is
\* written in between, and the call returns a new promise
CallBrainSearchAgain ==
  /\ pc = "done"
  /\ op = "brainSearch"
  /\ ret.status = "resolved"
  /\ prev.status = "none"
  /\ prev' = [status |-> "resolved", value |-> ret.value, outcome |-> outcome]
  /\ ncalls' = ncalls + 1
  /\ ret' = [status |-> "pending"]
  /\ StartSearch(opts)
  /\ UNCHANGED <<db, op, now, routeVars, packVars, text, mode, hasCrisisIndicators,
                 insertOutcome>>

----------------------------------------------------------------------------
(* getContextForPrompt. *)

Separator == "\n---\n"

KnowledgeChunk(item) ==
  "[Knowledge - " \o (IF item.category # "" THEN item.category ELSE "general")
    \o "]\n" \o item.content \o "\n"

SessionChunk(item) ==
  "[Session - " \o (IF item.section # "" THEN item.section ELSE "memory")
    \o "]\n" \o item.content \o "\n"

\* Math.ceil(chunk.length / 4)
ChunkTokens(chunk) == (Len(chunk) + 3) \div 4

RECURSIVE Join(_)
\* variant: a block without chunks is rendered as a placeholder line
JoinOrPlaceholder(parts) ==
  IF parts = <<>> THEN "(no context)"
  ELSE IF Len(parts) = 1 THEN parts[1]
  ELSE parts[1] \o Separator \o Join(Tail(parts))

\* contextParts.join('\n---\n')
Join(parts) ==
  IF parts = <<>> THEN ""
  ELSE IF Len(parts) = 1 THEN parts[1]
  ELSE parts[1] \o Separator \o Join(Tail(parts))

\* variant: the context build asks for conversation turns as well
ContextOptionsWithConversation ==
  [includeLegacy |-> TRUE, includeMemory |-> TRUE,
   includeConversation |-> TRUE, limit |-> 3]

\* the options getContextForPrompt passes to brainSearch
ContextOptions ==
  [includeLegacy |-> TRUE, includeMemory |-> TRUE,
   includeConversation |-> FALSE, limit |-> 3]

CallGetContext ==
  /\ pc = "idle"
  /\ op' = "getContextForPrompt"
  /\ ncalls' = ncalls + 1
  /\ \E b \in Budgets : maxTokens' = b
  /\ StartSearch(ContextOptions)
  /\ UNCHANGED <<db, ret, now, routeVars, contextParts, estimatedTokens, idx, classifyVars>>

\* variant: a chunk that would fill the budget exactly is refused too
OverflowsOrFills(chunk) == estimatedTokens + ChunkTokens(chunk) >= maxTokens

\* variant: contextParts.unshift(chunk), the newest chunk goes in front
Unshift(parts, chunk) == <<chunk>> \o parts

\* contextParts.push(chunk)
Push(parts, chunk) == Append(parts, chunk)

\* whether the chunk is refused: `estimatedTokens + chunkTokens > maxTokens`
Overflows(chunk) == estimatedTokens + ChunkTokens(chunk) > maxTokens

\* one iteration of `for (const item of searchResults.legacy)`
PackLegacy ==
  /\ pc = "packLegacy"
  /\ IF idx > Len(results.legacy)
     THEN /\ pc' = "packMemory"
          /\ idx' = 1
          /\ UNCHANGED <<contextParts, estimatedTokens>>
     ELSE LET chunk == KnowledgeChunk(results.legacy[idx]) IN
          IF Overflows(chunk)
          THEN /\ pc' = "packMemory"
               /\ idx' = 1
               /\ UNCHANGED <<contextParts, estimatedTokens>>
          ELSE /\ contextParts' = Push(contextParts, chunk)
               /\ estimatedTokens' = estimatedTokens + ChunkTokens(chunk)
               /\ idx' = idx + 1
               /\ UNCHANGED pc
  /\ UNCHANGED <<db, op, sent, ret, ncalls, now, routeVars, maxTokens, searchVars, classifyVars>>

\* one iteration of `for (const item of searchResults.memory)`
PackMemory ==
  /\ pc = "packMemory"
  /\ IF idx > Len(results.memory)
     THEN /\ pc' = "join"
          /\ UNCHANGED <<contextParts, estimatedTokens, idx>>
     ELSE LET chunk == SessionChunk(results.memory[idx]) IN
          IF Overflows(chunk)
          THEN /\ pc' = "join"
               /\ UNCHANGED <<contextParts, estimatedTokens, idx>>
          ELSE /\ contextParts' = Push(contextParts, chunk)
               /\ estimatedTokens' = estimatedTokens + ChunkTokens(chunk)
               /\ idx' = idx + 1
               /\ UNCHANGED pc
  /\ UNCHANGED <<db, op, sent, ret, ncalls, now, routeVars, maxTokens, searchVars, classifyVars>>

\* `return contextParts.join('\n---\n')`
ReturnContext ==
  /\ pc = "join"
  /\ pc' = IF op = "chat" THEN "chatScreen" ELSE "done"
  /\ ret' = [status |-> "resolved", value |-> Join(contextParts)]
  /\ UNCHANGED <<db, op, sent, ncalls, now, routeVars, searchVars, packVars, classifyVars>>

----------------------------------------------------------------------------
(* Input text of the classifier.  A text is held as the set of phrases     *)
(* (the lexicon phrases and `hello`, a word of no lexicon) that occur in   *)
(* it once case is folded, and whether it is written in upper case; the    *)
(* text with no phrase in it is the empty string ''.  A value that is no   *)
(* string has a kind of its own: null, undefined, the number 0 ("zero")    *)
(* and a number other than 0 ("number").                                   *)

crisisKeywords == <<"suicide", "kill myself", "end it all", "want to die", "hopeless">>

negativeWords == <<"sad", "depressed", "anxious", "worried", "scared", "angry", "hurt">>

positiveWords == <<"happy", "grateful", "blessed", "hopeful", "excited", "love">>

Range(seq) == { seq[i] : i \in DOMAIN seq }

\* most positive / negative lexicon words in an input text
MaxPosHits == 4
MaxNegHits == 4
CrisisSamples == {"want to die", "hopeless"}

Str(words, upper) == [kind |-> "string", words |-> words, upper |-> upper]

\* the string ''
EmptyText == Str({}, FALSE)

\* words of no lexicon
OtherWords == {"hello"}

Texts ==
  { Str(h \cup c \cup Range(Take(positiveWords, p)) \cup Range(Take(negativeWords, n)), u) :
      h \in SUBSET OtherWords, c \in SUBSET CrisisSamples,
      p \in 0..MaxPosHits, n \in 0..MaxNegHits, u \in BOOLEAN }
    \ {Str({}, TRUE)}

NonTexts == { [kind |-> k, words |-> {}, upper |-> FALSE] :
                k \in {"null", "undefined", "zero", "number"} }

Modes == {"logibot", "angel"}

IsString(t) == t.kind = "string"

\* text.toLowerCase()
ToLowerCase(t) == [t EXCEPT !.upper = FALSE]

\* text.includes(w) for a lower-case w
Includes(t, w) == w \in t.words /\ ~t.upper

----------------------------------------------------------------------------
(* Logging sink. *)

validSeverities == <<"low", "medium", "high", "critical">>

\* variant: the severity is stored as the caller gave it
CrisisPropertiesUnchecked(inputText, severity) ==
  [input_text |-> inputText, severity |-> severity, timestamp |-> now]

\* logCrisis: the properties of the record it hands to createObject
CrisisProperties(inputText, severity) ==
  [input_text |-> inputText,
   severity |-> IF severity \in Range(validSeverities) THEN severity ELSE "medium",
   timestamp |-> now]

InsertRequest(class, properties) ==
  [kind |-> "insert", class |-> class, properties |-> properties]

\* createObject: the store after a successful insert
Inserted(class, properties) ==
  [db EXCEPT ![class] = Append(db[class], properties)]

\* the sessionId argument: left out, the empty string, or a name.  A string
\* is held as the sequence of the parts it was put together from.
NoSession == <<>>

SessionArgs == {NoSession, <<"">>, <<"s-1">>}

Truthy(sid) == sid # NoSession /\ sid # <<"">>

\* `sessionId || \`session_${Date.now()}\``, with the clock reading it takes
SessionOf(sid, reading) == IF Truthy(sid) THEN sid ELSE <<"session_", reading>>

Roles == {"user", "assistant"}

LogMessages == {EmptyText, Str({"happy"}, FALSE)}

\* the properties logConversation hands to createObject: the timestamp is
\* the reading of `new Date()`, the generated session id the reading of the
\* `Date.now()` after it
ConversationProperties(message, r, m, sid, later) ==
  [message |-> message, role |-> r, mode |-> m, timestamp |-> now,
   session_id |-> SessionOf(sid, later)]

\* logConversation(message, role, mode, sessionId) up to the await inside
\* createObject
LogStart(message, r, m, sid) ==
  /\ text' = message
  /\ role' = r
  /\ mode' = m
  /\ sessionId' = sid
  /\ \E later \in now..MaxClock :
       /\ now' = later
       /\ sent' = <<InsertRequest("Conversation",
                                  ConversationProperties(message, r, m, sid, later))>>
  /\ logOutcome' = "pending"

CallLogConversation ==
  /\ \/ pc = "idle"
     \/ pc = "done" /\ op = "logConversation"
  /\ ncalls < MaxLogCalls
  /\ op' = "logConversation"
  /\ pc' = "awaitLog"
  /\ ncalls' = ncalls + 1
  /\ ret' = [status |-> "pending"]
  /\ \E message \in LogMessages, r \in Roles, sid \in SessionArgs :
       LogStart(message, r, "logibot", sid)
  /\ UNCHANGED <<db, searchVars, packVars, hasCrisisIndicators,
                 insertOutcome, prev, includeContext, handlerVars>>

\* the insert of logConversation settles (createObject returns or throws)
LC_Stored ==
  /\ op = "logConversation"
  /\ pc = "awaitLog"
  /\ \E how \in {"ok"} \cup FailureKinds :
       /\ logOutcome' = how
       /\ IF how = "ok"
          THEN /\ db' = Inserted("Conversation", sent[1].properties)
               /\ ret' = [status |-> "resolved", value |-> sent[1].properties]
          ELSE /\ ret' = [status |-> "rejected", error |-> how]
               /\ UNCHANGED db
  /\ pc' = "done"
  /\ UNCHANGED <<op, sent, ncalls, now, searchVars, packVars, classifyVars,
                 role, sessionId, includeContext, handlerVars>>

\* a millisecond passes
Tick ==
  /\ now < MaxClock
  /\ now' = now + 1
  /\ UNCHANGED <<db, op, pc, sent, ret, ncalls, searchVars, packVars,
                 classifyVars, routeVars>>

----------------------------------------------------------------------------
(* analyzeWithContext. *)

\* variant: a text already present in the CrisisLog is not flagged again
HasCrisisIndicatorsOnce(t) ==
  /\ \E i \in DOMAIN crisisKeywords : Includes(ToLowerCase(t), crisisKeywords[i])
  /\ \A j \in DOMAIN db.CrisisLog : db.CrisisLog[j].input_text # t

\* crisisKeywords.some(kw => text.toLowerCase().includes(kw))
HasCrisisIndicators(t) ==
  \E i \in DOMAIN crisisKeywords : Includes(ToLowerCase(t), crisisKeywords[i])

\* lexicon.filter(w => textLower.includes(w)).length
HitCount(lexicon, t) ==
  Cardinality({ i \in DOMAIN lexicon : Includes(ToLowerCase(t), lexicon[i]) })

Clamp(x) == IF x < 0 - 10 THEN 0 - 10 ELSE IF x > 10 THEN 10 ELSE x

\* variant: the clamped difference of the two weighted counts
SentimentScoreDifference(negCount, posCount) ==
  Clamp(3 * posCount - 3 * negCount)

\* the sentiment score, in tenths: 0.3 a hit, clamped to [-1, 1]
SentimentScore(negCount, posCount) ==
  Clamp(IF negCount > posCount THEN (0 - 3) * negCount
        ELSE IF posCount > negCount THEN 3 * posCount
        ELSE 0)

\* variant: the sentiment test comes before the crisis test
UrgencyLevelSentimentFirst(crisis, score) ==
  IF score < 0 - 5 THEN "high" ELSE IF crisis THEN "critical" ELSE "normal"

\* hasCrisisIndicators ? 'critical' : (sentimentScore < -0.5 ? 'high' : 'normal')
UrgencyLevel(crisis, score) ==
  IF crisis THEN "critical" ELSE IF score < 0 - 5 THEN "high" ELSE "normal"

\* the object analyzeWithContext returns
Analysis(t, m, crisis, knowledge) ==
  LET score == SentimentScore(HitCount(negativeWords, t), HitCount(positiveWords, t)) IN
  [sentimentScore |-> score,
   hasCrisisIndicators |-> crisis,
   urgencyLevel |-> UrgencyLevel(crisis, score),
   relevantKnowledge |->
     [i \in DOMAIN knowledge |->
        [content |-> knowledge[i].content, category |-> knowledge[i].category]],
   mode |-> m]

\* what `classify` reports of an analysis
Classification(a) ==
  [sentimentScore |-> a.sentimentScore,
   hasCrisisIndicators |-> a.hasCrisisIndicators,
   urgencyLevel |-> a.urgencyLevel]

\* variant: the crisis block is skipped and retrieval starts at once
AnalyzeStartSearchFirst(t, m) ==
  /\ op' = "analyzeWithContext"
  /\ ncalls' = ncalls + 1
  /\ text' = t
  /\ mode' = m
  /\ insertOutcome' = "unsent"
  /\ IF ~IsString(t)
     THEN /\ pc' = "done"
          /\ ret' = [status |-> "rejected", error |-> "TypeError"]
          /\ sent' = <<>>
          /\ hasCrisisIndicators' = FALSE
          /\ outcome' = [s \in Sources |-> "unsent"]
     ELSE /\ pc' = "awaitLegacy"
          /\ ret' = [status |-> "pending"]
          /\ sent' = <<QueryRequest("legacy", 3)>>
          /\ hasCrisisIndicators' =
               \E i \in DOMAIN crisisKeywords : Includes(ToLowerCase(t), crisisKeywords[i])
          /\ outcome' = [s \in Sources |-> IF s = "legacy" THEN "pending" ELSE "unsent"]

\* the call up to its first await: the crisis scan, then either the insert
\* of logCrisis (awaited) or, with no indicator, the searchLegacy query
AnalyzeStart(t, m) ==
  /\ op' = "analyzeWithContext"
  /\ ncalls' = ncalls + 1
  /\ text' = t
  /\ mode' = m
  /\ IF ~IsString(t)
     THEN \* text.toLowerCase is not a function
          /\ pc' = "done"
          /\ ret' = [status |-> "rejected", error |-> "TypeError"]
          /\ sent' = <<>>
          /\ hasCrisisIndicators' = FALSE
          /\ insertOutcome' = "unsent"
          /\ outcome' = [s \in Sources |-> "unsent"]
     ELSE IF HasCrisisIndicators(t)
     THEN /\ pc' = "awaitCrisis"
          /\ ret' = [status |-> "pending"]
          /\ sent' = <<InsertRequest("CrisisLog", CrisisProperties(t, "high"))>>
          /\ hasCrisisIndicators' = TRUE
          /\ insertOutcome' = "pending"
          /\ outcome' = [s \in Sources |-> "unsent"]
     ELSE /\ pc' = "awaitLegacy"
          /\ ret' = [status |-> "pending"]
          /\ sent' = <<QueryRequest("legacy", 3)>>
          /\ hasCrisisIndicators' = FALSE
          /\ insertOutcome' = "unsent"
          /\ outcome' = [s \in Sources |-> IF s = "legacy" THEN "pending" ELSE "unsent"]

CallAnalyze ==
  /\ pc = "idle"
  /\ \E t \in Texts \cup NonTexts, m \in Modes : AnalyzeStart(t, m)
  /\ UNCHANGED <<db, now, routeVars, opts, results, packVars, prev>>

\* the insert of logCrisis settles: the call goes on to searchLegacy, or the
\* error createObject rethrows ends it
AW_CrisisLogged ==
  /\ pc = "awaitCrisis"
  /\ \E how \in {"ok"} \cup FailureKinds :
       /\ insertOutcome' = how
       /\ IF how = "ok"
          THEN /\ db' = Inserted("CrisisLog", sent[1].properties)
               /\ sent' = Append(sent, QueryRequest("legacy", 3))
               /\ outcome' = [outcome EXCEPT !["legacy"] = "pending"]
               /\ pc' = "awaitLegacy"
               /\ UNCHANGED ret
          ELSE /\ pc' = "done"
               /\ ret' = [status |-> "rejected", error |-> how]
               /\ UNCHANGED <<db, sent, outcome>>
  /\ UNCHANGED <<op, ncalls, now, routeVars, opts, results, packVars,
                 text, mode, hasCrisisIndicators, prev>>

\* the query of searchLegacy settles: the call scores the text and returns,
\* or the error weaviateQuery rethrows ends it
AW_Searched ==
  /\ pc = "awaitLegacy"
  /\ outcome["legacy"] = "pending"
  /\ \E how \in Answers \cup FailureKinds :
       LET r == SearchSource("legacy", 3, how) IN
         /\ CanAnswer("LegacyKnowledge", 3, how)
         /\ outcome' = [outcome EXCEPT !["legacy"] = how]
         /\ pc' = "done"
         /\ ret' = IF r.threw
                   THEN [status |-> "rejected", error |-> r.error]
                   ELSE [status |-> "resolved",
                         value |-> Analysis(text, mode, hasCrisisIndicators, r.data)]
  /\ UNCHANGED <<db, op, sent, ncalls, now, routeVars, opts, results, packVars,
                 text, mode, hasCrisisIndicators, insertOutcome, prev>>

\* the caller classifies the same input once more, after the knowledge base
\* may have been re-ingested
CallAnalyzeAgain ==
  /\ pc = "done"
  /\ op = "analyzeWithContext"
  /\ ret.status = "resolved"
  /\ prev.status = "none"
  /\ prev' = [status |-> "resolved", value |-> Classification(ret.value)]
  /\ \E k \in SeqUpTo(KnowledgeItems, MaxStored) :
       db' = [db EXCEPT !.LegacyKnowledge = k]
  /\ AnalyzeStart(text, mode)
  /\ UNCHANGED <<now, routeVars, opts, results, packVars>>

----------------------------------------------------------------------------
(* POST /api/ai/chat (routes/ai.js). *)

\* the budget the route hands to getContextForPrompt
ChatBudget == 1500

chatCrisisKeywords == <<"suicide", "kill myself", "end it all", "want to die", "self harm">>

\* crisisKeywords.some(kw => message.toLowerCase().includes(kw))
ChatHasCrisis(t) ==
  \E i \in DOMAIN chatCrisisKeywords : Includes(ToLowerCase(t), chatCrisisKeywords[i])

ChatSamples == {"want to die", "hopeless", "self harm", "happy"}

\* request bodies: a message with one of the sample phrases in it, the
\* empty string, the number 0, another number, or no message at all
ChatMessages ==
  { Str({w}, u) : w \in ChatSamples, u \in BOOLEAN }
    \cup {EmptyText}
    \cup { t \in NonTexts : t.kind \in {"undefined", "zero", "number"} }

\* `!message`: undefined, null, 0 and '' are falsy
Falsy(t) == t.kind \in {"null", "undefined", "zero"} \/ t = EmptyText

Sent(code, body) == [status |-> "sent", code |-> code, body |-> body]

\* the `context` local: what getContextForPrompt resolved to, '' otherwise
ChatContext == IF ret.status = "resolved" THEN ret.value ELSE ""

\* res.json(response)
ChatResponse(hasCrisis) ==
  Sent(200, [context |-> ChatContext, hasCrisis |-> hasCrisis, mode |-> mode,
             session_id |-> SessionOf(sessionId, now)])

\* the handler up to `await weaviate.logConversation(...)`
CallChat ==
  /\ pc = "idle"
  /\ op' = "chat"
  /\ ncalls' = ncalls + 1
  /\ \E message \in ChatMessages, sid \in {NoSession, <<"s-1">>}, inc \in BOOLEAN :
       /\ includeContext' = inc
       /\ IF Falsy(message)
          THEN /\ text' = message
               /\ sessionId' = sid
               /\ pc' = "done"
               /\ ret' = Sent(400, [error |-> "Message is required"])
               /\ UNCHANGED <<role, mode, sent, logOutcome, now>>
          ELSE /\ LogStart(message, "user", "shanebrain", sid)
               /\ pc' = "chatLog"
               /\ UNCHANGED ret
  /\ UNCHANGED <<db, searchVars, packVars, hasCrisisIndicators,
                 insertOutcome, prev, handlerVars>>

\* the insert of logConversation settles, `.catch(() => {})` drops a failure,
\* and the handler goes on to getContextForPrompt when include_context is
\* set; a message that is no string makes every source search throw before
\* it sends its query
Chat_Logged ==
  /\ pc = "chatLog"
  /\ \E how \in {"ok"} \cup FailureKinds :
       /\ logOutcome' = how
       /\ db' = IF how = "ok"
                THEN Inserted("Conversation", sent[Len(sent)].properties)
                ELSE db
  /\ IF includeContext /\ IsString(text)
     THEN /\ maxTokens' = ChatBudget
          /\ StartSearch(ContextOptions)
          /\ UNCHANGED <<contextParts, estimatedTokens, idx>>
     ELSE /\ pc' = "chatScreen"
          /\ UNCHANGED <<sent, searchVars, packVars>>
  /\ UNCHANGED <<op, ret, ncalls, now, classifyVars, role, sessionId,
                 includeContext, handlerVars>>

\* the crisis check: message.toLowerCase() throws on a message that is no
\* string and the outer catch answers 500; a crisis message awaits logCrisis
Chat_Screen ==
  /\ pc = "chatScreen"
  /\ IF ~IsString(text)
     THEN /\ ret' = Sent(500, [error |-> "Chat failed"])
          /\ pc' = "done"
          /\ UNCHANGED <<sent, hasCrisisIndicators, insertOutcome>>
     ELSE /\ hasCrisisIndicators' = ChatHasCrisis(text)
          /\ IF ChatHasCrisis(text)
             THEN /\ sent' = Append(sent, InsertRequest("CrisisLog",
                                                        CrisisProperties(text, "high")))
                  /\ insertOutcome' = "pending"
                  /\ pc' = "chatCrisis"
                  /\ UNCHANGED ret
             ELSE /\ ret' = ChatResponse(FALSE)
                  /\ pc' = "done"
                  /\ UNCHANGED <<sent, insertOutcome>>
  /\ UNCHANGED <<db, op, ncalls, now, routeVars, searchVars, packVars,
                 text, mode, prev>>

\* the insert of logCrisis settles, `.catch(() => {})` drops a failure, and
\* the response is sent
Chat_CrisisLogged ==
  /\ pc = "chatCrisis"
  /\ \E how \in {"ok"} \cup FailureKinds :
       /\ insertOutcome' = how
       /\ db' = IF how = "ok"
                THEN Inserted("CrisisLog", sent[Len(sent)].properties)
                ELSE db
  /\ ret' = ChatResponse(TRUE)
  /\ pc' = "done"
  /\ UNCHANGED <<op, sent, ncalls, now, routeVars, searchVars, packVars,
                 text, mode, hasCrisisIndicators, prev>>

----------------------------------------------------------------------------
(* POST /api/ai/analyze (routes/ai.js), POST /api/weaviate/analyze and      *)
(* POST /api/weaviate/conversations (routes/weaviate.js).                   *)

AnalyzeRoutes == {"ai/analyze", "weaviate/analyze"}

\* whether the handler has sent its response
Responded == ret.status = "sent"

\* the handler up to `await weaviate.analyzeWithContext(text, mode)`
CallAnalyzeRoute ==
  /\ pc = "idle"
  /\ \E r \in AnalyzeRoutes, t \in ChatMessages, sid \in {NoSession, <<"s-1">>} :
       /\ route' = r
       /\ sessionId' = sid
       /\ IF Falsy(t)
          THEN /\ op' = "analyzeWithContext"
               /\ text' = t
               /\ pc' = "done"
               /\ ret' = Sent(400, [error |-> "Text is required"])
               /\ UNCHANGED <<ncalls, mode, sent, hasCrisisIndicators,
                              insertOutcome, outcome>>
          ELSE AnalyzeStart(t, "logibot")
  /\ UNCHANGED <<db, now, opts, results, packVars, prev, role, includeContext,
                 logOutcome, givenSeverity, calls, writer>>

\* analyzeWithContext has settled: a rejection goes to the catch of the
\* handler, otherwise the handler calls logConversation and awaits it
Route_Analyzed ==
  /\ route \in AnalyzeRoutes
  /\ pc = "done"
  /\ ~Responded
  /\ IF ret.status = "rejected"
     THEN /\ ret' = Sent(500, [error |-> "Analysis failed"])
          /\ UNCHANGED <<pc, sent, logOutcome, now>>
     ELSE /\ \E later \in now..MaxClock :
               /\ now' = later
               /\ sent' = Append(sent, InsertRequest("Conversation",
                            ConversationProperties(text, "user", mode, sessionId, later)))
          /\ logOutcome' = "pending"
          /\ pc' = "routeLog"
          /\ UNCHANGED ret
  /\ UNCHANGED <<db, op, ncalls, searchVars, packVars, classifyVars,
                 role, sessionId, includeContext, handlerVars>>

\* the insert of logConversation settles: /api/ai/analyze drops a failure
\* with `.catch(() => {})`, /api/weaviate/analyze awaits the call bare
Route_Logged ==
  /\ pc = "routeLog"
  /\ \E how \in {"ok"} \cup FailureKinds :
       /\ logOutcome' = how
       /\ IF how = "ok"
          THEN /\ db' = Inserted("Conversation", sent[Len(sent)].properties)
               /\ ret' = Sent(200, [analysis |-> ret.value])
          ELSE /\ UNCHANGED db
               /\ ret' = IF route = "ai/analyze"
                         THEN Sent(200, [analysis |-> ret.value])
                         ELSE Sent(500, [error |-> "Analysis failed"])
  /\ pc' = "done"
  /\ UNCHANGED <<op, sent, ncalls, now, searchVars, packVars, classifyVars,
                 role, sessionId, includeContext, handlerVars>>

\* POST /api/weaviate/conversations up to `await weaviate.logConversation`
CallConversations ==
  /\ pc = "idle"
  /\ route' = "weaviate/conversations"
  /\ op' = "logConversation"
  /\ ncalls' = ncalls + 1
  /\ \E message \in ChatMessages, r \in Roles, sid \in {NoSession, <<"s-1">>} :
       IF Falsy(message)
       THEN /\ text' = message
            /\ pc' = "done"
            /\ ret' = Sent(400, [error |-> "Message is required"])
            /\ UNCHANGED <<role, mode, sessionId, sent, logOutcome, now>>
       ELSE /\ LogStart(message, r, "logibot", sid)
            /\ pc' = "awaitLog"
            /\ UNCHANGED ret
  /\ UNCHANGED <<db, searchVars, packVars, hasCrisisIndicators,
                 insertOutcome, prev, includeContext, givenSeverity, calls, writer>>

\* logConversation has settled: the handler answers with the id, or 500
Route_ConversationStored ==
  /\ route = "weaviate/conversations"
  /\ pc = "done"
  /\ ~Responded
  /\ ret' = IF ret.status = "resolved"
            THEN Sent(200, [success |-> TRUE, id |-> Len(db.Conversation)])
            ELSE Sent(500, [error |-> "Failed to log conversation"])
  /\ UNCHANGED <<db, op, pc, sent, ncalls, now, searchVars, packVars,
                 classifyVars, routeVars>>

----------------------------------------------------------------------------
(* POST /api/weaviate/crisis (routes/weaviate.js) and logCrisis. *)

\* the severity of the request body: a valid one, some other string, or
\* none at all ("undefined")
GivenSeverities ==
  Range(validSeverities) \cup {"severe", "HIGH", "", "undefined"}

\* `severity = 'medium'` in the destructuring of req.body
RouteSeverity(sev) == IF sev = "undefined" THEN "medium" ELSE sev

\* the handler up to the await inside createObject; inputText.substring
\* throws on an input_text that is no string, before anything is written
CallCrisisRoute ==
  /\ pc = "idle"
  /\ route' = "weaviate/crisis"
  /\ op' = "logCrisis"
  /\ ncalls' = ncalls + 1
  /\ \E t \in ChatMessages, sev \in GivenSeverities :
       /\ text' = t
       /\ givenSeverity' = sev
       /\ IF Falsy(t)
          THEN /\ ret' = Sent(400, [error |-> "input_text is required"])
               /\ pc' = "done"
               /\ UNCHANGED <<sent, insertOutcome>>
          ELSE IF ~IsString(t)
          THEN /\ ret' = Sent(500, [error |-> "Failed to log crisis event"])
               /\ pc' = "done"
               /\ UNCHANGED <<sent, insertOutcome>>
          ELSE /\ sent' = <<InsertRequest("CrisisLog",
                              CrisisProperties(t, RouteSeverity(sev)))>>
               /\ insertOutcome' = "pending"
               /\ pc' = "crisisWrite"
               /\ UNCHANGED ret
  /\ UNCHANGED <<db, now, searchVars, packVars, mode, hasCrisisIndicators, prev,
                 role, sessionId, includeContext, logOutcome, calls, writer>>

\* the insert of logCrisis settles and the handler answers
Crisis_Stored ==
  /\ pc = "crisisWrite"
  /\ \E how \in {"ok"} \cup FailureKinds :
       /\ insertOutcome' = how
       /\ IF how = "ok"
          THEN /\ db' = Inserted("CrisisLog", sent[1].properties)
               /\ ret' = Sent(200, [success |-> TRUE, id |-> Len(db.CrisisLog) + 1])
          ELSE /\ UNCHANGED db
               /\ ret' = Sent(500, [error |-> "Failed to log crisis event"])
  /\ pc' = "done"
  /\ UNCHANGED <<op, sent, ncalls, now, searchVars, packVars, text, mode,
                 hasCrisisIndicators, prev, routeVars>>

----------------------------------------------------------------------------
(* Writers of the searched collections: addLegacyKnowledge, the exported   *)
(* createObject and POST /api/weaviate/knowledge (routes/weaviate.js).     *)
(* The write is another caller's: it runs beside whatever call `op` is.    *)

NoWrite == [pc |-> "idle", via |-> "none", request |-> <<>>,
            ret |-> [status |-> "pending"]]

\* the content handed to addLegacyKnowledge or sent in the request body
KnowledgeContents == {"Pray", "Family first"}

\* the category argument: left out ("undefined") or named
GivenCategories == {"undefined", "faith"}

\* `category = 'general'`, `source = 'manual'` for the arguments left out
KnowledgeProperties(content, category) ==
  [content |-> content,
   category |-> IF category = "undefined" THEN "general" ELSE category,
   source |-> "manual"]

\* createObject(className, properties) up to its await
StartInsert(via, class, properties) ==
  writer' = [pc |-> "awaitInsert", via |-> via,
             request |-> <<InsertRequest(class, properties)>>,
             ret |-> [status |-> "pending"]]

\* addLegacyKnowledge(content, category)
CallAddLegacyKnowledge ==
  /\ writer.pc = "idle"
  /\ \E content \in KnowledgeContents, category \in GivenCategories :
       StartInsert("addLegacyKnowledge", "LegacyKnowledge",
                   KnowledgeProperties(content, category))
  /\ UNCHANGED <<db, op, pc, sent, ret, ncalls, now, searchVars, packVars,
                 classifyVars, role, sessionId, includeContext, logOutcome,
                 route, givenSeverity, calls>>

\* createObject('SessionMemory', properties), called directly
CallCreateObject ==
  /\ writer.pc = "idle"
  /\ \E properties \in MemoryItems :
       StartInsert("createObject", "SessionMemory", properties)
  /\ UNCHANGED <<db, op, pc, sent, ret, ncalls, now, searchVars, packVars,
                 classifyVars, role, sessionId, includeContext, logOutcome,
                 route, givenSeverity, calls>>

\* POST /api/weaviate/knowledge up to `await weaviate.addLegacyKnowledge`;
\* a body without content, or with '', is answered 400
CallKnowledgeRoute ==
  /\ writer.pc = "idle"
  /\ \E content \in KnowledgeContents \cup {"", "undefined"},
        category \in GivenCategories :
       IF content \in {"", "undefined"}
       THEN writer' = [pc |-> "done", via |-> "weaviate/knowledge",
                       request |-> <<>>,
                       ret |-> Sent(400, [error |-> "Content is required"])]
       ELSE StartInsert("weaviate/knowledge", "LegacyKnowledge",
                        KnowledgeProperties(content, category))
  /\ UNCHANGED <<db, op, pc, sent, ret, ncalls, now, searchVars, packVars,
                 classifyVars, role, sessionId, includeContext, logOutcome,
                 route, givenSeverity, calls>>

\* the insert settles: the engine appends the record and createObject
\* returns the object with its id, or createObject throws; the route
\* answers with the id, or 500
Writer_Stored ==
  /\ writer.pc = "awaitInsert"
  /\ \E how \in {"ok"} \cup FailureKinds :
       LET request == writer.request[1]
           id == Len(db[request.class]) + 1
           viaRoute == writer.via = "weaviate/knowledge"
       IN  IF how = "ok"
           THEN /\ db' = Inserted(request.class, request.properties)
                /\ writer' = [writer EXCEPT !.pc = "done", !.ret =
                      IF viaRoute THEN Sent(200, [success |-> TRUE, id |-> id])
                      ELSE [status |-> "resolved", value |-> [id |-> id]]]
           ELSE /\ UNCHANGED db
                /\ writer' = [writer EXCEPT !.pc = "done", !.ret =
                      IF viaRoute
                      THEN Sent(500, [error |-> "Failed to add knowledge"])
                      ELSE [status |-> "rejected", error |-> how]]
  /\ UNCHANGED <<op, pc, sent, ret, ncalls, now, searchVars, packVars,
                 classifyVars, role, sessionId, includeContext, logOutcome,
                 route, givenSeverity, calls>>

----------------------------------------------------------------------------
(* Two brainSearch calls in flight at once.  Each call has its own locals   *)
(* (options, the `results` object, the state of its storage calls), held    *)
(* in `calls`; the engine ranks a collection by the query of the request.   *)

Queries == {"faith", "family"}

RECURSIVE Reverse(_)
Reverse(seq) == IF seq = <<>> THEN <<>> ELSE Append(Reverse(Tail(seq)), Head(seq))

\* what the engine answers to a Get for query q with `limit` on a collection
EngineGetFor(q, class, limit) ==
  Take(IF q = "faith" THEN db[class] ELSE Reverse(db[class]), limit)

\* every order of every item of S
FullOrders(S) ==
  { seq \in [1..Cardinality(S) -> S] :
      \A i \in DOMAIN seq, j \in DOMAIN seq : i # j => seq[i] # seq[j] }

\* variant: `results` is one object at module level that every call
\* resets, writes and returns
SlotShared(c) == 1

\* the `results` object call c writes and returns: the one it declared
Slot(c) == c

NewCall(q, o) ==
  [pc |-> "search", query |-> q, opts |-> o, results |-> EmptyResults,
   outcome |-> [s \in Sources |-> IF Enabled(o, s) THEN "pending" ELSE "unsent"],
   ret |-> EmptyResults]

\* a caller starts brainSearch while at most one other call is in flight
CC_Call ==
  /\ Len(calls) < 2
  /\ \E q \in Queries, given \in SUBSET OptionKeys,
        il \in BOOLEAN, im \in BOOLEAN, ic \in BOOLEAN, l \in 1..MaxLimit :
       LET o == WithDefaults(given, [includeLegacy |-> il, includeMemory |-> im,
                                     includeConversation |-> ic, limit |-> l])
           c == Len(calls) + 1
           started == Append(calls, NewCall(q, o))
       IN  calls' = [started EXCEPT ![Slot(c)].results = EmptyResults]
  /\ UNCHANGED <<db, op, pc, sent, ret, ncalls, now, searchVars, packVars,
                 classifyVars, role, sessionId, includeContext, logOutcome,
                 route, givenSeverity, writer>>

\* the storage call of source s of call c settles; its handlers run
CC_Complete ==
  /\ \E c \in DOMAIN calls, s \in Sources, how \in {"ok", "unavailable"} :
       /\ calls[c].outcome[s] = "pending"
       /\ LET answered == [calls EXCEPT ![c].outcome[s] = how] IN
            calls' = IF CatchIgnore("rejected") = "fulfilled" /\ how = "ok"
                     THEN [answered EXCEPT ![Slot(c)].results[s] =
                             EngineGetFor(calls[c].query, ClassOf(s),
                                          calls[c].opts.limit)]
                     ELSE answered
  /\ UNCHANGED <<db, op, pc, sent, ret, ncalls, now, searchVars, packVars,
                 classifyVars, role, sessionId, includeContext, logOutcome,
                 route, givenSeverity, writer>>

\* Promise.all of call c settles and the call returns `results`
CC_Join ==
  /\ \E c \in DOMAIN calls :
       /\ calls[c].pc = "search"
       /\ \A s \in Sources : calls[c].outcome[s] # "pending"
       /\ calls' = [calls EXCEPT ![c].pc = "done",
                                 ![c].ret = calls[Slot(c)].results]
  /\ UNCHANGED <<db, op, pc, sent, ret, ncalls, now, searchVars, packVars,
                 classifyVars, role, sessionId, includeContext, logOutcome,
                 route, givenSeverity, writer>>

----------------------------------------------------------------------------
(* Specifications. *)

NoOptions ==
  [includeLegacy |-> FALSE, includeMemory |-> FALSE,
   includeConversation |-> FALSE, limit |-> 0]

InitCall ==
  /\ op = "none"
  /\ pc = "idle"
  /\ opts = NoOptions
  /\ maxTokens = 0
  /\ results = EmptyResults
  /\ outcome = [s \in Sources |-> "unsent"]
  /\ sent = <<>>
  /\ contextParts = <<>>
  /\ estimatedTokens = 0
  /\ idx = 1
  /\ text = EmptyText
  /\ mode = "logibot"
  /\ hasCrisisIndicators = FALSE
  /\ insertOutcome = "unsent"
  /\ prev = [status |-> "none"]
  /\ ncalls = 0
  /\ now = 0
  /\ role = "user"
  /\ sessionId = NoSession
  /\ includeContext = TRUE
  /\ logOutcome = "unsent"
  /\ route = "none"
  /\ givenSeverity = "medium"
  /\ calls = <<>>
  /\ writer = NoWrite
  /\ ret = [status |-> "pending"]

\* a store holding knowledge and session memory; nothing logged yet
Init ==
  /\ \E k \in SeqUpTo(KnowledgeItems, MaxStored),
        m \in SeqUpTo(MemoryItems, MaxStored) :
       db = [LegacyKnowledge |-> k, SessionMemory |-> m,
             Conversation |-> <<>>, CrisisLog |-> <<>>]
  /\ InitCall

\* one call of getContextForPrompt
Next ==
  \/ CallGetContext
  \/ BS_Complete
  \/ BS_Join
  \/ PackLegacy
  \/ PackMemory
  \/ ReturnContext

Spec == Init /\ [][Next]_vars

\* a store that also holds logged conversation turns
InitSearch ==
  /\ \E k \in SeqUpTo(KnowledgeItems, MaxStored),
        m \in SeqUpTo(MemoryItems, MaxStored),
        c \in SeqUpTo(Turns, MaxTurns) :
       db = [LegacyKnowledge |-> k, SessionMemory |-> m,
             Conversation |-> c, CrisisLog |-> <<>>]
  /\ InitCall

\* one call of brainSearch
NextSearch ==
  \/ CallBrainSearch
  \/ BS_Complete
  \/ BS_Join

SpecSearch == InitSearch /\ [][NextSearch]_vars

\* a small store
InitSmall ==
  /\ \E k \in SeqUpTo(KnowledgeItems, MaxKept),
        m \in SeqUpTo(MemoryItems, MaxKept),
        c \in SeqUpTo(Turns, MaxKept) :
       db = [LegacyKnowledge |-> k, SessionMemory |-> m,
             Conversation |-> c, CrisisLog |-> <<>>]
  /\ InitCall

\* two calls of brainSearch, the second with the arguments of the first
NextTwice ==
  \/ CallBrainSearch
  \/ BS_Complete
  \/ BS_Join
  \/ CallBrainSearchAgain

\* a store whose collections are empty or hold every item, in either order
InitTwice ==
  /\ \E k \in {<<>>} \cup FullOrders(KnowledgeItems),
        m \in {<<>>} \cup FullOrders(MemoryItems),
        c \in {<<>>} \cup FullOrders(Turns) :
       db = [LegacyKnowledge |-> k, SessionMemory |-> m,
             Conversation |-> c, CrisisLog |-> <<>>]
  /\ InitCall

SpecTwice == InitTwice /\ [][NextTwice]_vars

\* one call of either retrieval entry point on a small store
NextRetrieve ==
  \/ CallBrainSearch
  \/ CallGetContext
  \/ BS_Complete
  \/ BS_Join
  \/ PackLegacy
  \/ PackMemory
  \/ ReturnContext

SpecRetrieve == InitSmall /\ [][NextRetrieve]_vars

\* a store with a memory record and a turn, with or without knowledge
InitWrite ==
  /\ \E k \in {<<>>, <<[content |-> "Pray", category |-> "", source |-> "manual"]>>},
        m \in {<<[content |-> "ok", section |-> "", session_file |-> "s1.md",
                  session_date |-> "2026-02-05"]>>},
        c \in FullOrders(Turns) :
       db = [LegacyKnowledge |-> k, SessionMemory |-> m,
             Conversation |-> c, CrisisLog |-> <<>>]
  /\ InitCall

\* the two retrieval entry points, beside a caller that adds a record
NextWrite ==
  \/ CallBrainSearch
  \/ CallGetContext
  \/ BS_Complete
  \/ BS_Join
  \/ PackLegacy
  \/ PackMemory
  \/ ReturnContext
  \/ CallAddLegacyKnowledge
  \/ CallCreateObject
  \/ CallKnowledgeRoute
  \/ Writer_Stored

SpecWrite == InitWrite /\ [][NextWrite]_vars

\* an empty store
InitLog ==
  /\ db = [LegacyKnowledge |-> <<>>, SessionMemory |-> <<>>,
           Conversation |-> <<>>, CrisisLog |-> <<>>]
  /\ InitCall

\* calls of logConversation, one after the other, while time passes
NextLog ==
  \/ CallLogConversation
  \/ LC_Stored
  \/ Tick

SpecLog == InitLog /\ [][NextLog]_vars

\* one call of either retrieval entry point against an engine that may
\* leave requests unanswered; the event loop runs every continuation that
\* is ready, and the engine deals with every request in the end
NextStall ==
  \/ CallBrainSearch
  \/ CallGetContext
  \/ BS_Complete
  \/ BS_Hang
  \/ BS_Join
  \/ PackLegacy
  \/ PackMemory
  \/ ReturnContext

SpecStall == InitSmall /\ [][NextStall]_vars /\ WF_vars(NextStall)

\* a small store of knowledge and session memory; nothing logged yet
InitChat ==
  /\ \E k \in SeqUpTo(KnowledgeItems, MaxKept),
        m \in SeqUpTo(MemoryItems, MaxKept) :
       db = [LegacyKnowledge |-> k, SessionMemory |-> m,
             Conversation |-> <<>>, CrisisLog |-> <<>>]
  /\ InitCall

\* one request to POST /api/ai/chat
NextChat ==
  \/ CallChat
  \/ Chat_Logged
  \/ BS_Complete
  \/ BS_Join
  \/ PackLegacy
  \/ PackMemory
  \/ ReturnContext
  \/ Chat_Screen
  \/ Chat_CrisisLogged

SpecChat == InitChat /\ [][NextChat]_vars

\* one request to one of the handlers that log a conversation turn
NextRoutes ==
  \/ CallAnalyzeRoute
  \/ AW_CrisisLogged
  \/ AW_Searched
  \/ Route_Analyzed
  \/ Route_Logged
  \/ CallConversations
  \/ LC_Stored
  \/ Route_ConversationStored

\* a store holding knowledge; nothing logged yet
InitClassify ==
  /\ \E k \in SeqUpTo(KnowledgeItems, MaxStored) :
       db = [LegacyKnowledge |-> k, SessionMemory |-> <<>>,
             Conversation |-> <<>>, CrisisLog |-> <<>>]
  /\ InitCall

\* calls of analyzeWithContext on one input
NextClassify ==
  \/ CallAnalyze
  \/ AW_CrisisLogged
  \/ AW_Searched
  \/ CallAnalyzeAgain

SpecClassify == InitClassify /\ [][NextClassify]_vars

\* one request to POST /api/ai/chat while time passes
NextChatClock ==
  \/ CallChat
  \/ Chat_Logged
  \/ BS_Complete
  \/ BS_Join
  \/ PackLegacy
  \/ PackMemory
  \/ ReturnContext
  \/ Chat_Screen
  \/ Chat_CrisisLogged
  \/ Tick

SpecChatClock == InitChat /\ [][NextChatClock]_vars

\* one request to POST /api/weaviate/crisis
NextCrisis ==
  \/ CallCrisisRoute
  \/ Crisis_Stored

SpecCrisis == InitLog /\ [][NextCrisis]_vars

\* a store that holds every knowledge item, memory item and turn once
InitConcurrent ==
  /\ \E k \in FullOrders(KnowledgeItems), m \in FullOrders(MemoryItems),
        c \in FullOrders(Turns) :
       db = [LegacyKnowledge |-> k, SessionMemory |-> m,
             Conversation |-> c, CrisisLog |-> <<>>]
  /\ InitCall

\* two overlapping calls of brainSearch
NextConcurrent ==
  \/ CC_Call
  \/ CC_Complete
  \/ CC_Join

SpecConcurrent == InitConcurrent /\ [][NextConcurrent]_vars

SpecRoutes == InitClassify /\ [][NextRoutes]_vars

----------------------------------------------------------------------------
(* Properties. *)

RECURSIVE SumTokens(_)
\* the sum of ceil(chunk length / 4) over a list of chunks
SumTokens(parts) ==
  IF parts = <<>> THEN 0 ELSE ChunkTokens(Head(parts)) + SumTokens(Tail(parts))

Packing ==
  op = "getContextForPrompt" /\ pc \in {"packLegacy", "packMemory", "join", "done"}

\* C1: for every budget maxTokens, the size estimate of the context that
\* getContextForPrompt builds is <= maxTokens at every step of packing and at
\* return
C1_EstimateWithinBudget ==
  Packing => /\ estimatedTokens <= maxTokens
             /\ SumTokens(contextParts) <= maxTokens
             /\ estimatedTokens = SumTokens(contextParts)

\* the chunks the results would give, in priority order
Candidates ==
  [i \in DOMAIN results.legacy |-> KnowledgeChunk(results.legacy[i])]
    \o [i \in DOMAIN results.memory |-> SessionChunk(results.memory[i])]

IsPrefix(p, q) == Len(p) <= Len(q) /\ p = SubSeq(q, 1, Len(p))

\* C2: packing stops entirely at the first chunk that would exceed the budget:
\* the output holds the chunks before the first rejected one and none after
\* it, so it is a prefix of the knowledge chunks followed by the memory chunks
C2_StopsAtFirstOverflow ==
  (op = "getContextForPrompt" /\ pc = "done") => IsPrefix(contextParts, Candidates)

\* C3: a failed storage call of one source never makes brainSearch reject; the
\* failed source's sequence is empty and every other enabled source's sequence
\* is what its own storage call returned, in every order of completion
C3_FailureIsolated ==
  op = "brainSearch" =>
    /\ ret.status # "rejected"
    /\ pc = "done" =>
         /\ ret.status = "resolved"
         /\ \A s \in Sources :
              /\ outcome[s] \in FailureKinds \cup {"unsent", "no_data"} =>
                   ret.value[s] = <<>>
              /\ outcome[s] = "ok" => ret.value[s] = EngineGet(ClassOf(s), opts.limit)
              /\ outcome[s] = "over_limit" => ret.value[s] = db[ClassOf(s)]

C3_Witness ==
  /\ op = "brainSearch"
  /\ pc = "done"
  /\ ret.status = "resolved"
  /\ \E s, t \in Sources :
       /\ outcome[s] \in FailureKinds
       /\ outcome[t] = "ok"
       /\ ret.value[t] # <<>>
       /\ ret.value[s] = <<>>

\* a denylist phrase occurs in the text, whatever its case
ContainsDenylistPhrase(t) ==
  IsString(t) /\ t.words \cap Range(crisisKeywords) # {}

Analyzed == op = "analyzeWithContext" /\ pc = "done"

Returned == Analyzed /\ ret.status = "resolved"

\* every call so far appended one record for the text, with severity high
CrisisRecorded ==
  /\ Len(db.CrisisLog) = ncalls
  /\ \A i \in DOMAIN db.CrisisLog :
       db.CrisisLog[i].input_text = text /\ db.CrisisLog[i].severity = "high"

\* C4: a text containing a denylist phrase is reported with hasCrisisIndicators
\* and urgency critical, and exactly one CrisisLog record (that text, severity
\* high) is appended by the call; a text with no phrase writes no record
C4_CrisisReportedAndLogged ==
  (Analyzed /\ IsString(text)) =>
    IF ContainsDenylistPhrase(text)
    THEN /\ ret.status = "resolved"
         /\ ret.value.hasCrisisIndicators
         /\ ret.value.urgencyLevel = "critical"
         /\ CrisisRecorded
    ELSE db.CrisisLog = <<>>

\* C5: with crisis indicators present, the CrisisLog write is issued and has
\* completed before any knowledge query is issued and before the call returns,
\* so a failed retrieval leaves the record written
C5_CrisisWriteBeforeRetrieval ==
  (op = "analyzeWithContext" /\ ContainsDenylistPhrase(text)) =>
    /\ \A i \in DOMAIN sent :
         sent[i].kind = "query" =>
           /\ \E j \in 1..(i - 1) :
                /\ sent[j].kind = "insert"
                /\ sent[j].class = "CrisisLog"
                /\ sent[j].properties.input_text = text
           /\ insertOutcome = "ok"
           /\ CrisisRecorded
    /\ ret.status = "resolved" => (insertOutcome = "ok" /\ CrisisRecorded)

C5_Witness ==
  /\ Analyzed
  /\ ContainsDenylistPhrase(text)
  /\ outcome["legacy"] \in FailureKinds
  /\ ret.status = "rejected"
  /\ insertOutcome = "ok"
  /\ Len(db.CrisisLog) = 1
  /\ db.CrisisLog[1].input_text = text

\* C6: when the CrisisLog write fails, analyzeWithContext still returns its
\* result: the failure is not propagated to the caller
C6_LogFailureNotPropagated ==
  (Analyzed /\ insertOutcome \in FailureKinds) =>
    /\ ret.status = "resolved"
    /\ ret.value.hasCrisisIndicators
    /\ ret.value.urgencyLevel = "critical"

\* no crisis phrase and no negative word occurs in the input
NoCrisisNoNegative(t) ==
  t.words \cap (Range(crisisKeywords) \cup Range(negativeWords)) = {}

StorageFailed ==
  insertOutcome \in FailureKinds \/ \E s \in Sources : outcome[s] \in FailureKinds

\* C7: analyzeWithContext never throws on its input: an input with no crisis
\* phrase and no negative word, the empty text and a non-text value included,
\* is classified no-crisis / normal
C7_NeverThrowsOnInput ==
  (Analyzed /\ NoCrisisNoNegative(text) /\ ~StorageFailed) =>
    /\ ret.status = "resolved"
    /\ ~ret.value.hasCrisisIndicators
    /\ ret.value.urgencyLevel = "normal"

\* C8: two calls on the same text, against different store contents, report
\* the same sentimentScore, hasCrisisIndicators and urgencyLevel whenever both
\* return
C8_ClassificationDeterministic ==
  (Returned /\ prev.status = "resolved") => Classification(ret.value) = prev.value

C8_Witness ==
  /\ Returned
  /\ prev.status = "resolved"
  /\ ncalls = 2
  /\ Len(db.CrisisLog) = 2
  /\ ret.value.relevantKnowledge # <<>>
  /\ ret.value.hasCrisisIndicators

\* the lexicon words that occur in the text
PosHits(t) == Cardinality(t.words \cap Range(positiveWords))
NegHits(t) == Cardinality(t.words \cap Range(negativeWords))

\* C9 as stated: the score is clamp(0.3 * posCount - 0.3 * negCount)
C9_ScoreIsClampedDifference ==
  Returned =>
    ret.value.sentimentScore = Clamp(3 * PosHits(text) - 3 * NegHits(text))

\* C9 as amended: the score is clamp(-0.3 * negCount) when negative hits
\* exceed positive ones, clamp(0.3 * posCount) when positive hits exceed
\* negative ones, and 0 on a tie; the smaller count is not subtracted
C9_ScoreOfLargerCount ==
  Returned =>
    LET pos == PosHits(text)
        neg == NegHits(text)
        score == ret.value.sentimentScore
    IN /\ neg > pos => score = (IF 3 * neg > 10 THEN 0 - 10 ELSE 0 - 3 * neg)
       /\ pos > neg => score = (IF 3 * pos > 10 THEN 10 ELSE 3 * pos)
       /\ pos = neg => score = 0
       /\ (pos = 2 /\ neg = 0) => score = 6

C9_Witness ==
  /\ Returned
  /\ PosHits(text) = 1
  /\ NegHits(text) = 2
  /\ ret.value.sentimentScore = 0 - 6

\* C10: urgencyLevel is critical iff crisis indicators are present, otherwise
\* high iff sentimentScore < -0.5, otherwise normal; crisis overrides any score
C10_UrgencyFirstMatch ==
  Returned =>
    LET v == ret.value
        crisis == ContainsDenylistPhrase(text)
    IN /\ v.hasCrisisIndicators = crisis
       /\ v.urgencyLevel \in {"critical", "high", "normal"}
       /\ v.urgencyLevel = "critical" <=> crisis
       /\ ~crisis => (v.urgencyLevel = "high" <=> v.sentimentScore < 0 - 5)
       /\ (~crisis /\ v.sentimentScore >= 0 - 5) => v.urgencyLevel = "normal"

C10_Witness ==
  /\ Returned
  /\ ContainsDenylistPhrase(text)
  /\ NegHits(text) >= 2
  /\ ret.value.sentimentScore < 0 - 5
  /\ ret.value.urgencyLevel = "critical"

\* C11 as stated: every sequence of a returned result set has length <= the
\* per-source limit, whatever the storage engine answers
C11_LengthWithinLimit ==
  (op = "brainSearch" /\ pc = "done") =>
    \A s \in Sources : Len(ret.value[s]) <= opts.limit

\* C11 as amended: the sequence of every source whose storage call was
\* answered within the limit of its query has length <= the limit; brainSearch
\* passes the limit to the engine and does not truncate the answer
C11_LengthWithinLimitIfEngineHonoursIt ==
  (op = "brainSearch" /\ pc = "done") =>
    \A s \in Sources :
      outcome[s] # "over_limit" => Len(ret.value[s]) <= opts.limit

C11_Witness ==
  /\ op = "brainSearch"
  /\ pc = "done"
  /\ \E s \in Sources :
       /\ outcome[s] = "ok"
       /\ Len(db[ClassOf(s)]) > opts.limit
       /\ Len(ret.value[s]) = opts.limit

\* the second of two brainSearch calls has returned
SearchedTwice == op = "brainSearch" /\ pc = "done" /\ prev.status = "resolved"

\* C12 as stated: two brainSearch calls with the same query and options and
\* no write in between return identical result sets
C12_Idempotent == SearchedTwice => ret.value = prev.value

\* how the storage call of a source ended, as far as the result can tell:
\* with the engine's answer to the query, with an answer over the limit, or
\* with nothing to return (no data, a failure, no call at all)
Ended(how) == IF how \in {"ok", "over_limit"} THEN how ELSE "nothing"

\* C12 as amended: in two calls with the same query and options and no write
\* in between, the sequence of a source is the same (same records, same
\* order) whenever its storage call ended the same way in both calls, be it
\* with an answer or with a failure, in whatever order the sources complete;
\* a source whose call failed or brought no data is empty in that call's
\* result set, whatever the other call returned for it
C12_IdempotentPerOutcome ==
  SearchedTwice =>
    \A s \in Sources :
      /\ Ended(prev.outcome[s]) = Ended(outcome[s]) => ret.value[s] = prev.value[s]
      /\ Ended(outcome[s]) = "nothing" => ret.value[s] = <<>>
      /\ Ended(prev.outcome[s]) = "nothing" => prev.value[s] = <<>>

\* both calls returned two knowledge records in the engine's order, found
\* the memory collection unreachable and the conversation collection empty
C12_Witness ==
  /\ SearchedTwice
  /\ prev.outcome = outcome
  /\ Len(ret.value["legacy"]) > 1
  /\ ret.value["legacy"] = db.LegacyKnowledge
  /\ ret.value["legacy"][1] # ret.value["legacy"][2]
  /\ outcome["memory"] = "unavailable"
  /\ db.SessionMemory # <<>>
  /\ outcome["conversation"] = "ok"
  /\ db.Conversation = <<>>
  /\ ret.value = prev.value

\* every storage call of the call was sent and found the engine unreachable
AllUnreachable ==
  /\ Pushed # {}
  /\ \A s \in Pushed : outcome[s] = "unavailable"

\* C13: when every source is unreachable, brainSearch still resolves, to a
\* result set of three empty sequences, and getContextForPrompt resolves to
\* the empty string; neither rejects
C13_AllDownYieldsEmpty ==
  (pc = "done" /\ AllUnreachable) =>
     /\ ret.status = "resolved"
     /\ op = "brainSearch" => ret.value = EmptyResults
     /\ op = "getContextForPrompt" => results = EmptyResults /\ ret.value = ""

C13_Witness ==
  /\ pc = "done"
  /\ op = "getContextForPrompt"
  /\ AllUnreachable
  /\ db.LegacyKnowledge # <<>>
  /\ db.SessionMemory # <<>>
  /\ maxTokens = MaxBudget
  /\ ret = [status |-> "resolved", value |-> ""]

\* the stored turn was logged without a session of the caller's
GeneratedSession(turn) == Len(turn.session_id) > 1

\* C14 as stated: two logConversation calls that name no session store two
\* turns with distinct generated session ids, whatever the time between them
C14_GeneratedSessionsDistinct ==
  \A i \in DOMAIN db.Conversation, j \in DOMAIN db.Conversation :
    (i < j /\ GeneratedSession(db.Conversation[i])
           /\ GeneratedSession(db.Conversation[j]))
      => db.Conversation[i].session_id # db.Conversation[j].session_id

Min(a, b) == IF a < b THEN a ELSE b

\* the records the LegacyKnowledge collection can hold
KnowledgeRecords ==
  KnowledgeItems \cup { KnowledgeProperties(c, g) :
                          c \in KnowledgeContents, g \in GivenCategories }

\* how many of the packed chunks were built from knowledge / from memory
KnowledgePacked ==
  Cardinality({ i \in DOMAIN contextParts :
                  \E x \in KnowledgeRecords : contextParts[i] = KnowledgeChunk(x) })

MemoryPacked ==
  Cardinality({ i \in DOMAIN contextParts :
                  \E x \in MemoryItems : contextParts[i] = SessionChunk(x) })

\* every chunk the sources returned has the same estimated size, which is
\* positive and within the budget
EqualSizes ==
  /\ Candidates # <<>>
  /\ \A i \in DOMAIN Candidates :
       ChunkTokens(Candidates[i]) = ChunkTokens(Candidates[1])
  /\ ChunkTokens(Candidates[1]) > 0
  /\ ChunkTokens(Candidates[1]) <= maxTokens

\* C15: when the knowledge source returned k chunks and the memory source m,
\* all of one estimated size s with 0 < s <= B, the context holds
\* min(k, B div s) knowledge chunks, and memory chunks only if all k knowledge
\* chunks fit: min(m, B div s - k) of them, otherwise none
C15_KnowledgeFirstCounts ==
  (op = "getContextForPrompt" /\ pc = "done" /\ EqualSizes) =>
    LET k == Len(results.legacy)
        m == Len(results.memory)
        fit == maxTokens \div ChunkTokens(Candidates[1])
    IN  /\ KnowledgePacked = Min(k, fit)
        /\ MemoryPacked = IF k <= fit THEN Min(m, fit - k) ELSE 0
        /\ Len(contextParts) = KnowledgePacked + MemoryPacked

\* three knowledge and three memory chunks of 9 tokens under a budget that
\* has room for one: one knowledge chunk and no memory chunk
C15_Witness ==
  /\ op = "getContextForPrompt"
  /\ pc = "done"
  /\ EqualSizes
  /\ Len(results.legacy) = 3
  /\ Len(results.memory) = 3
  /\ maxTokens = 17
  /\ KnowledgePacked = 1
  /\ MemoryPacked = 0

\* C16: a source search whose storage call fails hands its caller an empty
\* sequence, never an error: analyzeWithContext, which awaits searchLegacy
\* directly, goes on with no knowledge and returns its analysis
C16_SourceFailureYieldsEmpty ==
  (Analyzed /\ outcome["legacy"] \in FailureKinds) =>
     /\ ret.status = "resolved"
     /\ ret.value.relevantKnowledge = <<>>

\* C17: brainSearch joins its searches, it does not race them: when it has
\* returned, the storage call of every enabled source has settled, and the
\* result set it returned is the one the handlers have written, with nothing
\* written afterwards
C17_JoinNotRace ==
  (op = "brainSearch" /\ pc = "done") =>
     /\ \A s \in Sources : outcome[s] \notin {"pending", "hung"}
     /\ ret.value = results

C17_Witness ==
  /\ op = "brainSearch"
  /\ pc = "done"
  /\ \A s \in Sources : Enabled(opts, s)
  /\ outcome["legacy"] = "ok"
  /\ outcome["memory"] = "unavailable"
  /\ outcome["conversation"] = "ok"
  /\ ret.value["legacy"] # <<>>
  /\ ret.value["conversation"] # <<>>

\* C18: a call in progress never stalls: as long as brainSearch or
\* getContextForPrompt has not returned there is a step to take, because a
\* storage call the engine leaves unanswered is ended by its deadline
C18_NeverStalls ==
  (op \in {"brainSearch", "getContextForPrompt"} /\ pc # "done") =>
     ENABLED NextStall

\* a CrisisLog write for the text was handed to the storage engine
CrisisWriteAttempted ==
  \E i \in DOMAIN sent :
    /\ sent[i].kind = "insert"
    /\ sent[i].class = "CrisisLog"
    /\ sent[i].properties.input_text = text

\* C19: for every message that contains a crisis indicator, POST /api/ai/chat
\* has attempted a CrisisLog write by the time it responds, whatever became
\* of the context retrieval, and the response carries hasCrisis = true
C19_ChatLogsCrisisBeforeResponse ==
  (op = "chat" /\ pc = "done" /\ IsString(text) /\ ContainsDenylistPhrase(text)) =>
     /\ ret.code = 200
     /\ ret.body.hasCrisis
     /\ CrisisWriteAttempted

\* C20: the context block of getContextForPrompt never holds conversation
\* turns: the build sends no query to the Conversation collection, and every
\* chunk it packs is a Knowledge chunk or a Session chunk
C20_NoConversationInContext ==
  op = "getContextForPrompt" =>
     /\ \A i \in DOMAIN sent : sent[i].class # "Conversation"
     /\ outcome["conversation"] = "unsent"
     /\ results.conversation = <<>>
     /\ Len(contextParts) = KnowledgePacked + MemoryPacked

C20_Witness ==
  /\ op = "getContextForPrompt"
  /\ pc = "done"
  /\ db.Conversation # <<>>
  /\ KnowledgePacked > 0
  /\ MemoryPacked > 0
  /\ Len(sent) = 2

\* the chunks of the knowledge results and of the memory results, in the
\* order the sources returned them
KnowledgeChunks ==
  [i \in DOMAIN results.legacy |-> KnowledgeChunk(results.legacy[i])]

SessionChunks ==
  [i \in DOMAIN results.memory |-> SessionChunk(results.memory[i])]

\* C21: the chunk list getContextForPrompt packs is a prefix of the knowledge
\* chunks in the order returned, followed by a prefix of the memory chunks in
\* the order returned, each chunk whole: nothing reordered, duplicated or cut
C21_PrefixThenPrefix ==
  Packing =>
    \E a \in 0..Len(KnowledgeChunks), b \in 0..Len(SessionChunks) :
      contextParts = SubSeq(KnowledgeChunks, 1, a) \o SubSeq(SessionChunks, 1, b)

\* a strict prefix of two knowledge chunks followed by a memory chunk
C21_Witness ==
  /\ op = "getContextForPrompt"
  /\ pc = "done"
  /\ Len(results.legacy) >= 2
  /\ KnowledgePacked = 1
  /\ MemoryPacked >= 1
  /\ contextParts[1] = KnowledgeChunks[1]
  /\ contextParts[2] = SessionChunks[1]

\* the Conversation inserts the request has handed to the storage engine
ConversationInserts ==
  { i \in DOMAIN sent : sent[i].kind = "insert" /\ sent[i].class = "Conversation" }

\* C22: in the handlers that log a turn without returning its id, a failed
\* turn write is never shown to the user: the handler still answers 200 with
\* the analysis it computed
C22_TurnWriteFailureHidden ==
  (route \in AnalyzeRoutes /\ Responded /\ logOutcome \in FailureKinds) =>
     /\ ret.code = 200
     /\ "analysis" \in DOMAIN ret.body

\* C23: every message that passes validation in a logging handler produces
\* exactly one Conversation insert by the time the handler responds,
\* whatever became of classification and retrieval
C23_OneTurnPerMessage ==
  (route # "none" /\ Responded /\ ret.code # 400 /\ IsString(text)) =>
     Cardinality(ConversationInserts) = 1

\* C24: a budget of zero or less given to getContextForPrompt is rejected
\* with a ConfigurationError that reaches the caller; the call does not
\* resolve to a context block
C24_InvalidBudgetRejected ==
  (op = "getContextForPrompt" /\ pc = "done" /\ maxTokens <= 0) =>
     /\ ret.status = "rejected"
     /\ ret.error = "ConfigurationError"

\* what brainSearch works with when the caller gives no options
DefaultOptions == WithDefaults({}, NoOptions)

QueriedClasses == { sent[i].class : i \in DOMAIN sent }

\* C25: brainSearch issues no storage call for a source its options disable,
\* and the sequence of that source in the result is empty; with no options
\* given it queries knowledge and memory and not the conversation source
C25_DisabledSourceUntouched ==
  op = "brainSearch" =>
     /\ \A s \in Sources :
          ~Enabled(opts, s) =>
             /\ ClassOf(s) \notin QueriedClasses
             /\ outcome[s] = "unsent"
             /\ results[s] = <<>>
             /\ pc = "done" => ret.value[s] = <<>>
     /\ opts = DefaultOptions =>
          QueriedClasses = {"LegacyKnowledge", "SessionMemory"}

C25_Witness ==
  /\ op = "brainSearch"
  /\ pc = "done"
  /\ opts = DefaultOptions
  /\ db.Conversation # <<>>
  /\ outcome["conversation"] = "unsent"
  /\ ret.value["legacy"] # <<>>
  /\ ret.value["memory"] # <<>>
  /\ ret.value["conversation"] = <<>>

\* C26: crisis detection uses one denylist everywhere: the hasCrisis flag
\* POST /api/ai/chat reports for a message equals the hasCrisisIndicators
\* flag analyzeWithContext computes for the same text
C26_OneDenylist ==
  (op = "chat" /\ pc = "done" /\ ret.code = 200) =>
     ret.body.hasCrisis = HasCrisisIndicators(text)

\* C27: when POST /api/ai/chat is called without a session_id and the write
\* of the user turn succeeds, the session_id in the response is the one
\* stored on the Conversation record of that message
C27_ReturnedSessionIsStored ==
  (op = "chat" /\ pc = "done" /\ ret.code = 200
     /\ ~Truthy(sessionId) /\ logOutcome = "ok") =>
     ret.body.session_id = db.Conversation[Len(db.Conversation)].session_id

\* C28: brainSearch and getContextForPrompt are read-only on the store: every
\* step of theirs, with failing sources too and with another caller writing
\* beside them, leaves the four collections as they were, and every request
\* they have issued is a query, never an insert
C28_RetrievalIsReadOnly ==
  [][ (op' \in {"brainSearch", "getContextForPrompt"} /\ writer' = writer) =>
        /\ db' = db
        /\ \A i \in DOMAIN sent' : sent'[i].kind = "query" ]_vars

C28_Witness ==
  /\ op = "getContextForPrompt"
  /\ pc = "done"
  /\ outcome["legacy"] = "unavailable"
  /\ outcome["memory"] = "ok"
  /\ db.LegacyKnowledge # <<>>
  /\ db.SessionMemory # <<>>
  /\ db.Conversation # <<>>
  /\ Len(sent) = 2
  /\ ret.value # ""
  /\ writer.pc = "done"
  /\ writer.via = "addLegacyKnowledge"
  /\ Len(db.LegacyKnowledge) = 2

\* C29: every CrisisLog record written through logCrisis has a severity in
\* {low, medium, high, critical}: a severity outside the set is replaced by
\* 'medium', and a valid one is stored as given
C29_SeverityValidated ==
  /\ \A i \in DOMAIN db.CrisisLog :
       db.CrisisLog[i].severity \in Range(validSeverities)
  /\ (route = "weaviate/crisis" /\ pc = "done" /\ insertOutcome = "ok") =>
       db.CrisisLog[Len(db.CrisisLog)].severity =
         IF givenSeverity \in Range(validSeverities) THEN givenSeverity
         ELSE "medium"

C29_Witness ==
  /\ route = "weaviate/crisis"
  /\ pc = "done"
  /\ insertOutcome = "ok"
  /\ givenSeverity = "severe"
  /\ Len(db.CrisisLog) = 1
  /\ db.CrisisLog[1].severity = "medium"
  /\ db.CrisisLog[1].input_text = text

\* the result set call c returns when it runs alone and its storage calls
\* end the way they did
Alone(c) ==
  [s \in Sources |->
     IF calls[c].outcome[s] = "ok"
     THEN EngineGetFor(calls[c].query, ClassOf(s), calls[c].opts.limit)
     ELSE <<>>]

\* C30: concurrent brainSearch calls do not interfere: however two calls
\* with different queries or options interleave at their storage calls,
\* each returns exactly the result set it would return alone
C30_CallsDoNotInterfere ==
  \A c \in DOMAIN calls : calls[c].pc = "done" => calls[c].ret = Alone(c)

\* the second call has returned while the first, with another query, is
\* still waiting for a storage call
C30_Witness ==
  /\ Len(calls) = 2
  /\ calls[1].pc = "search"
  /\ calls[1].outcome["memory"] = "pending"
  /\ calls[2].pc = "done"
  /\ calls[1].query # calls[2].query
  /\ calls[1].opts # calls[2].opts
  /\ calls[1].results["legacy"] # <<>>
  /\ calls[2].ret["legacy"] # <<>>
  /\ calls[2].ret["legacy"] # calls[1].results["legacy"]

====
